---- MODULE Spec2Model ----
(***************************************************************************)
(* Model of main_2d.py: the minibatch generator, the compilation of the    *)
(* training / validation functions and the epoch loop of the __main__      *)
(* block (training, validation, test, summary statistics, checkpointing).  *)
(*                                                                         *)
(* Images are abstracted to their index in the loaded split, a mask to the *)
(* ordinal of the cartesian_mask call that produced it, and the network    *)
(* parameters to the number of optimiser updates applied to them.          *)
(***************************************************************************)
EXTENDS Integers, Sequences, FiniteSets

\* ---- bounds of the model ------------------------------------------------
MaxEpoch == 6
MaxBatch == 2
MaxTrain == 3
MaxValidate == 2
MaxTest == 5

\* ---- program constants --------------------------------------------------
save_every == 5

\* l2 as parsed from the command line, in units of 1e-6 (0 = "--l2 0")
L2Values == {0, 1}

VARIABLES
    num_epoch, batch_size, save_fig, l2,   \* parsed command line
    train, validate, test,                 \* the three splits
    loaded,                                \* the splits as create_dummy_data returned them
    pc, err,                               \* position in the script, raised exception
    loss,                                  \* compile_fn's local variable `loss`
    epoch,                                 \* loop variable of the epoch loop
    data, i, im,                           \* generator locals and the yielded minibatch
    yielded,                               \* minibatches yielded by the current generator
    prepped,                               \* result of the latest prep_input call
    maskGen,                               \* number of cartesian_mask calls in the loop
    netCalls, calls, lastUsed,             \* network calls (total, this phase), last arguments
    params,                                \* version of the network parameters
    train_batches, validate_batches, test_batches,
    psnr_terms,                            \* number of terms added to base_psnr / test_psnr
    vis,                                   \* test batches captured for visualisation
    saved, images                          \* files written under models/<model_name>/

vars == << num_epoch, batch_size, save_fig, l2, train, validate, test, loaded,
           pc, err, loss, epoch, data, i, im, yielded, prepped, maskGen,
           netCalls, calls, lastUsed, params, train_batches, validate_batches,
           test_batches, psnr_terms, vis, saved, images >>

config_vars == << num_epoch, batch_size, save_fig, l2, loaded >>
dataset_vars == << train, validate, test >>
gen_vars == << data, i, im, yielded >>
net_vars == << prepped, maskGen, netCalls, calls, lastUsed, params >>
stat_vars == << train_batches, validate_batches, test_batches, psnr_terms, vis >>
file_vars == << saved, images >>

\* ---- helpers ------------------------------------------------------------
Min(a, b) == IF a < b THEN a ELSE b

Max(a, b) == IF a > b THEN a ELSE b

Ceil(n, b) == (n + b - 1) \div b

Iota(n) == [k \in 1..n |-> k]

RECURSIVE Concat(_)
Concat(ss) == IF ss = << >> THEN << >> ELSE Head(ss) \o Concat(Tail(ss))

RECURSIVE SumLen(_)
SumLen(ss) == IF ss = << >> THEN 0 ELSE Len(Head(ss)) + SumLen(Tail(ss))

Bijections(n) == { f \in [1..n -> 1..n] : \A a, b \in 1..n : f[a] = f[b] => a = b }

Perms(d) == { [k \in 1..Len(d) |-> d[f[k]]] : f \in Bijections(Len(d)) }

\* python slicing d[lo:hi] with 0 <= lo
Slice_overlap(d, lo, hi) == SubSeq(d, lo + 1, Min(hi + 1, Len(d)))

Slice(d, lo, hi) == SubSeq(d, lo + 1, Min(hi, Len(d)))

\* np.random.permutation(d): the returned array and the argument afterwards
np_random_permutation_inplace(d) == { [ret |-> p, arg |-> p] : p \in Perms(d) }

np_random_permutation(d) == { [ret |-> p, arg |-> d] : p \in Perms(d) }

\* `for i in xrange(0, n, batch_size)`: is there a next value at position k
xrange_has_next_full_only(k, n, step) == k + step <= n

xrange_has_next(k, n, step) == k < n

\* prep_input(im): one cartesian_mask call, the mask applied to this batch
prep_input_cached(batch, gen) == [mask |-> IF gen = 0 THEN 1 ELSE gen, im |-> batch]

prep_input(batch, gen) == [mask |-> gen + 1, im |-> batch]

\* theano.function(..., updates=updates): effect of one call on the parameters
train_fn_updates(p) == p + 1

\* theano.function(...) without updates: effect of one call on the parameters
val_fn_updates_too(p) == p + 1

val_fn_updates(p) == p

\* divisors of the per-epoch summary
train_divisor == Max(1, train_batches)

validate_divisor == validate_batches

test_divisor == test_batches

psnr_divisor == test_batches * batch_size

\* the condition guarding the checkpoint block
save_condition == save_fig /\ (epoch % save_every = 0 \/ epoch \in {1, 2, num_epoch - 1})

NoPrep == [mask |-> 0, im |-> << >>]

\* ---- initial state: after argument parsing and create_dummy_data --------
Init ==
    /\ num_epoch \in 0..MaxEpoch
    /\ batch_size \in 1..MaxBatch
    /\ save_fig \in BOOLEAN
    /\ l2 \in L2Values
    /\ train \in { Iota(n) : n \in 0..MaxTrain }
    /\ validate \in { Iota(n) : n \in 0..MaxValidate }
    /\ test \in { Iota(n) : n \in 0..MaxTest }
    /\ loaded = << train, validate, test >>
    /\ pc = "compile" /\ err = "none" /\ loss = "unbound"
    /\ epoch = 0
    /\ data = << >> /\ i = 0 /\ im = << >> /\ yielded = << >>
    /\ prepped = NoPrep /\ maskGen = 0
    /\ netCalls = 0 /\ calls = 0 /\ lastUsed = NoPrep
    /\ params = 0
    /\ train_batches = 0 /\ validate_batches = 0 /\ test_batches = 0
    /\ psnr_terms = 0 /\ vis = << >>
    /\ saved = {} /\ images = {}

\* ---- compile_fn ---------------------------------------------------------
compile_fn ==
    /\ pc = "compile"
    /\ LET bound == IF l2 # 0 THEN "loss_sq+l2*l2_penalty" ELSE loss
       IN /\ loss' = bound
          /\ IF bound = "unbound"
             THEN pc' = "error" /\ err' = "UnboundLocalError"
             ELSE pc' = "epoch" /\ err' = err
    /\ UNCHANGED << config_vars, dataset_vars, epoch, gen_vars, net_vars,
                    stat_vars, file_vars >>

\* ---- the epoch loop -----------------------------------------------------
\* `for epoch in xrange(num_epoch)` and the set-up of the training phase
EpochHead ==
    /\ pc = "epoch"
    /\ IF epoch < num_epoch
       THEN /\ pc' = "train"
            /\ train_batches' = 0
            /\ \E r \in np_random_permutation(train) :
                  /\ data' = r.ret
                  /\ train' = r.arg
            /\ i' = 0 /\ yielded' = << >> /\ calls' = 0
            /\ UNCHANGED << im, validate, test, validate_batches, test_batches,
                            psnr_terms, vis >>
       ELSE /\ pc' = "done"
            /\ UNCHANGED << dataset_vars, gen_vars, stat_vars, calls >>
    /\ UNCHANGED << config_vars, err, loss, epoch, prepped, maskGen, netCalls,
                    lastUsed, params, file_vars >>

\* one step of the generator: yield data[i:i+batch_size] or stop
GenNext(loop, body, after) ==
    /\ pc = loop
    /\ IF xrange_has_next(i, Len(data), batch_size)
       THEN /\ im' = Slice(data, i, i + batch_size)
            /\ yielded' = Append(yielded, im')
            /\ i' = i + batch_size
            /\ pc' = body
       ELSE /\ pc' = after
            /\ UNCHANGED << im, yielded, i >>
    /\ UNCHANGED << config_vars, dataset_vars, err, loss, epoch, data, net_vars,
                    stat_vars, file_vars >>

\* im_und, k_und, mask, im_gnd = prep_input(im, gauss_ivar=gauss_ivar)
PrepStep(body, call) ==
    /\ pc = body
    /\ prepped' = prep_input(im, maskGen)
    /\ maskGen' = prepped'.mask
    /\ pc' = call
    /\ UNCHANGED << config_vars, dataset_vars, err, loss, epoch, gen_vars,
                    netCalls, calls, lastUsed, params, stat_vars, file_vars >>

TrainNext == GenNext("train", "train_prep", "validate_init")

TrainPrep == PrepStep("train_prep", "train_call")

TrainCall ==
    /\ pc = "train_call"
    /\ params' = train_fn_updates(params)
    /\ netCalls' = netCalls + 1 /\ calls' = calls + 1
    /\ lastUsed' = prepped
    /\ train_batches' = train_batches + 1
    /\ pc' = "train"
    /\ UNCHANGED << config_vars, dataset_vars, err, loss, epoch, gen_vars,
                    prepped, maskGen, validate_batches, test_batches,
                    psnr_terms, vis, file_vars >>

ValidateInit ==
    /\ pc = "validate_init"
    /\ validate_batches' = 0
    /\ data' = validate /\ i' = 0 /\ yielded' = << >> /\ calls' = 0
    /\ pc' = "validate"
    /\ UNCHANGED << config_vars, dataset_vars, err, loss, epoch, im, prepped,
                    maskGen, netCalls, lastUsed, params, train_batches,
                    test_batches, psnr_terms, vis, file_vars >>

ValidateNext == GenNext("validate", "validate_prep", "test_init")

ValidatePrep == PrepStep("validate_prep", "validate_call")

ValidateCall ==
    /\ pc = "validate_call"
    /\ params' = val_fn_updates(params)
    /\ netCalls' = netCalls + 1 /\ calls' = calls + 1
    /\ lastUsed' = prepped
    /\ validate_batches' = validate_batches + 1
    /\ pc' = "validate"
    /\ UNCHANGED << config_vars, dataset_vars, err, loss, epoch, gen_vars,
                    prepped, maskGen, train_batches, test_batches,
                    psnr_terms, vis, file_vars >>

TestInit ==
    /\ pc = "test_init"
    /\ vis' = << >> /\ psnr_terms' = 0 /\ test_batches' = 0
    /\ data' = test /\ i' = 0 /\ yielded' = << >> /\ calls' = 0
    /\ pc' = "test"
    /\ UNCHANGED << config_vars, dataset_vars, err, loss, epoch, im, prepped,
                    maskGen, netCalls, lastUsed, params, train_batches,
                    validate_batches, file_vars >>

TestNext == GenNext("test", "test_prep", "log")

TestPrep == PrepStep("test_prep", "test_call")

TestCall ==
    /\ pc = "test_call"
    /\ params' = val_fn_updates(params)
    /\ netCalls' = netCalls + 1 /\ calls' = calls + 1
    /\ lastUsed' = prepped
    /\ psnr_terms' = psnr_terms + Len(im)
    /\ test_batches' = test_batches + 1
    /\ vis' = IF save_fig /\ test_batches' % save_every = 0
              THEN Append(vis, test_batches')
              ELSE vis
    /\ pc' = "test"
    /\ UNCHANGED << config_vars, dataset_vars, err, loss, epoch, gen_vars,
                    prepped, maskGen, train_batches, validate_batches,
                    file_vars >>

\* the five summary lines; a zero divisor raises ZeroDivisionError
LogStats ==
    /\ pc = "log"
    /\ IF train_divisor = 0 \/ validate_divisor = 0 \/ test_divisor = 0
          \/ psnr_divisor = 0
       THEN pc' = "error" /\ err' = "ZeroDivisionError"
       ELSE pc' = "save" /\ err' = err
    /\ UNCHANGED << config_vars, dataset_vars, loss, epoch, gen_vars, net_vars,
                    stat_vars, file_vars >>

\* the checkpoint block, then the next iteration of the epoch loop
SaveModel ==
    /\ pc = "save"
    /\ IF save_condition
       THEN /\ images' = images \cup { k - 1 : k \in 1..Len(vis) }
            /\ saved' = saved \cup { [epoch |-> epoch, params |-> params] }
       ELSE UNCHANGED file_vars
    /\ epoch' = epoch + 1
    /\ pc' = "epoch"
    /\ UNCHANGED << config_vars, dataset_vars, err, loss, gen_vars, net_vars,
                    stat_vars >>

Next ==
    \/ compile_fn
    \/ EpochHead
    \/ TrainNext \/ TrainPrep \/ TrainCall
    \/ ValidateInit \/ ValidateNext \/ ValidatePrep \/ ValidateCall
    \/ TestInit \/ TestNext \/ TestPrep \/ TestCall
    \/ LogStats
    \/ SaveModel

Spec == Init /\ [][Next]_vars

\* ---- properties ---------------------------------------------------------
LoopHeads == {"train", "validate", "test"}

CallSites == {"train_call", "validate_call", "test_call"}

\* C1: a generator over a split of N elements yields exactly ceil(N/B)
\* minibatches, all of B elements except possibly the last, which has 1..B
\* elements; the sizes sum to N and the phase makes ceil(N/B) network calls.
C1_BatchCount ==
    LET Exhausted(n, batches) ==
            /\ Len(yielded) = Ceil(n, batch_size)
            /\ \A k \in 1..(Len(yielded) - 1) : Len(yielded[k]) = batch_size
            /\ yielded # << >> =>
                  Len(yielded[Len(yielded)]) \in 1..batch_size
            /\ SumLen(yielded) = n
            /\ calls = Ceil(n, batch_size)
            /\ batches = Ceil(n, batch_size)
    IN /\ pc = "validate_init" => Exhausted(Len(loaded[1]), train_batches)
       /\ pc = "test_init" => Exhausted(Len(loaded[2]), validate_batches)
       /\ pc = "log" => Exhausted(Len(loaded[3]), test_batches)

C1_Witness ==
    /\ pc = "log" /\ Len(test) = 5 /\ batch_size = 2
    /\ Len(yielded) = 3 /\ Len(yielded[3]) = 1 /\ test_batches = 3

\* C2: the yielded minibatches are the consecutive chunks of the iterated
\* array; their concatenation is the validation / test split in its original
\* order and a permutation of the training split.
C2_Partition ==
    /\ pc \in LoopHeads \cup CallSites \cup {"train_prep", "validate_prep", "test_prep"} =>
          /\ \A k \in 1..Len(yielded) :
                yielded[k] = SubSeq(data, (k - 1) * batch_size + 1,
                                    Min(k * batch_size, Len(data)))
          /\ Len(Concat(yielded)) <= Len(data)
          /\ Concat(yielded) = SubSeq(data, 1, Len(Concat(yielded)))
    /\ pc = "validate_init" =>
          /\ Len(Concat(yielded)) = Len(loaded[1])
          /\ \A x \in 1..Len(loaded[1]) :
                Cardinality({ j \in 1..Len(Concat(yielded)) : Concat(yielded)[j] = loaded[1][x] }) = 1
    /\ pc = "test_init" => Concat(yielded) = loaded[2]
    /\ pc = "log" => Concat(yielded) = loaded[3]

C2_Witness ==
    /\ pc = "validate_init" /\ Len(train) = 3 /\ batch_size = 2
    /\ Len(yielded) = 2 /\ Concat(yielded) = << 3, 1, 2 >>

\* C3 (as claimed): the run ends only in Idle, after exactly num_epoch
\* epochs have gone through training, validation, test and checkpointing.
C3_Original ==
    /\ pc # "error"
    /\ pc = "done" => epoch = num_epoch
    /\ epoch <= num_epoch

\* C4: only a train_fn call changes the parameters; val_fn calls in the
\* validation and test phases, the summary and the checkpoint leave them
\* unchanged.
C4_ParamsFrame ==
    [][ /\ params' # params => pc = "train_call"
        /\ pc \notin {"train", "train_prep", "train_call", "epoch"} => params' = params ]_vars

C4_Witness ==
    /\ pc = "save" /\ epoch >= 1
    /\ validate_batches >= 1 /\ test_batches >= 1
    /\ params >= 2 /\ netCalls > params

\* C5 (as claimed): every divisor of the epoch summary is floored at 1, so
\* a split with zero batches raises nothing.
C5_Original ==
    /\ pc = "log" => /\ train_divisor >= 1
                     /\ validate_divisor >= 1
                     /\ test_divisor >= 1
    /\ err # "ZeroDivisionError"

\* C6 (as claimed): after every epoch e on the cadence or at a milestone the
\* file <model_name>_epoch_<e>.npz exists, whether or not savefig is set.
C6_Original ==
    \A e \in 0..(epoch - 1) :
        (e % save_every = 0 \/ e \in {1, 2, num_epoch - 1}) =>
            \E s \in saved : s.epoch = e

\* C7: every network call receives the mask and undersampled data of the
\* prep_input call made for the same minibatch; the k-th call gets the k-th
\* generated mask, so masks are never reused and both counts agree.
C7_FreshMask ==
    /\ pc \in CallSites =>
          /\ maskGen = netCalls + 1
          /\ prepped.mask = maskGen
          /\ prepped.im = im
    /\ pc \notin CallSites => maskGen = netCalls
    /\ netCalls > 0 => lastUsed.mask = netCalls
    /\ (pc \in LoopHeads /\ calls > 0) => lastUsed.im = im

C7_Witness ==
    /\ pc = "test" /\ epoch >= 1 /\ calls >= 2
    /\ lastUsed.mask = netCalls /\ maskGen >= 6

\* C8: the three splits keep the contents and order they were loaded with;
\* every training permutation is a permutation of the loaded split and the
\* validation and test batches are those of the loaded splits in every epoch.
C8_DatasetsFrame ==
    /\ << train, validate, test >> = loaded
    /\ pc \in {"train", "train_prep", "train_call", "validate_init"} =>
          data \in Perms(loaded[1])
    /\ pc = "test_init" => Concat(yielded) = loaded[2]
    /\ pc = "log" => Concat(yielded) = loaded[3]

C8_Witness ==
    /\ pc = "train_call" /\ epoch >= 1
    /\ data # train /\ Len(train) >= 2

\* C9 (as claimed): the PSNR divisor equals the number of accumulated
\* per-image terms, the number of test images.
C9_Original ==
    (pc = "log" /\ Len(test) >= 1) =>
        /\ psnr_terms = Len(test)
        /\ psnr_divisor = psnr_terms

\* C10 (as claimed): compile_fn has a defined loss for l2 = 0 as well and
\* returns without raising.
C10_Original ==
    /\ err # "UnboundLocalError"
    /\ pc \notin {"compile", "error"} =>
          loss = IF l2 # 0 THEN "loss_sq+l2*l2_penalty" ELSE "loss_sq"

====
